---------------------------- MODULE Spec2Model ----------------------------
(***************************************************************************)
(* A model of pincam.py: the pinhole camera Pincam, its matrix builders,   *)
(* the homogeneous coordinate converters p2e / e2p, the projector          *)
(* (project, project3d) and the depth orderer (project_by_z).              *)
(*                                                                         *)
(* Numbers.  The program computes in IEEE floating point.  The model       *)
(* computes the same expressions exactly: a number is a triple <<k, n, d>> *)
(* standing for (n / d) * u^k, where u is the intrinsic scale per unit of  *)
(* focal length, u = W * (W / R) with W = DEFAULT_SENSOR_WORLD_WIDTH and   *)
(* R = DEFAULT_PIXEL_RESOLUTION (so Sx = flen * u).  Keeping the power of  *)
(* u apart keeps every intermediate value inside TLC's integers.  d = 0    *)
(* encodes the IEEE values a division by zero produces: <<0, 1, 0>> is     *)
(* +inf, <<0, -1, 0>> is -inf and <<0, 0, 0>> is nan.  Rounding error and  *)
(* the sign of zero are not modelled.                                      *)
(*                                                                         *)
(* Angles.  heading and pitch are radians in the program; the model draws  *)
(* them from the angles whose sine and cosine are rational: an angle is an *)
(* index into the table CosOf / SinOf.                                     *)
(***************************************************************************)
EXTENDS Integers, Sequences, FiniteSets, TLC

VARIABLES
    cam_point,      \* self.cam_point
    focal_length,   \* self.focal_length
    heading,        \* self.heading
    pitch,          \* self.pitch
    _P,             \* self._P
    op,             \* the operation that ran last
    arg,            \* the input of that operation
    ret,            \* what that operation returned (or the error it raised)
    aux,            \* intermediate values of that operation (locals of the call)
    stdout          \* what the program has printed

vars == <<cam_point, focal_length, heading, pitch, _P, op, arg, ret, aux, stdout>>

camera == <<cam_point, focal_length, heading, pitch, _P>>

-----------------------------------------------------------------------------
(* Bounds of the model *)

\* a batch holds at most MaxPolys polygons
MaxPolys == 3

\* world depths (y) of the polygons of a batch are drawn from 0 .. MaxDepth
MaxDepth == 2

\* the slabs handed to project_by_z lie at the heights 0 .. MaxZ
MaxZ == 3

-----------------------------------------------------------------------------
(* Program constants *)

DEFAULT_PIXEL_RESOLUTION == 100

DEFAULT_MIN_FOCAL_LENGTH == 18

DEFAULT_MAX_FOCAL_LENGTH == 70

\* 23.6
DEFAULT_SENSOR_WORLD_WIDTH == <<0, 118, 5>>

None == <<>>

AssertionError == "AssertionError"

\* the outcome of a call: the value it returns, or the exception it raises
Return(v) == <<"return", v>>

Raise(e) == <<"raise", e>>

Raised(r) == r[1] = "raise"

Value(r) == r[2]

-----------------------------------------------------------------------------
(* Exact arithmetic on the program's floats.                                *)
(* An operator that reads an argument more than once first names its value: *)
(* CHOOSE r \in {e(a) : a \in {x}} : TRUE is e(x) with x evaluated once.    *)

Abs(n) == IF n < 0 THEN -n ELSE n

Sgn(n) == IF n < 0 THEN -1 ELSE IF n > 0 THEN 1 ELSE 0

RECURSIVE GCD(_, _)
GCD(a, b) == IF b = 0 THEN a ELSE GCD(b, a % b)

NaN == <<0, 0, 0>>

Inf(s) == <<0, s, 0>>

Zero == <<0, 0, 1>>

One == <<0, 1, 1>>

IsNaN(x) == x[3] = 0 /\ x[2] = 0

IsInf(x) == x[3] = 0 /\ x[2] # 0

IsFinite(x) == x[3] > 0

\* the finite number (n / d) * u^k in lowest terms, d > 0
Mk(k, n, d) ==
    CHOOSE r \in {IF nn = 0 THEN <<0, 0, 1>>
                  ELSE LET g == GCD(Abs(nn), dd) IN <<k, nn \div g, dd \div g>> :
                  nn \in {n}, dd \in {d}} : TRUE

Num(i) == Mk(0, i, 1)

\* u = W * (W / R) as a fraction: (118/5) * (118/5) / 100 = 3481 / 625
UnitScale ==
    LET W == DEFAULT_SENSOR_WORLD_WIDTH
        n == W[2] * W[2]
        d == W[3] * W[3] * DEFAULT_PIXEL_RESOLUTION
    IN  Mk(0, n, d)

FNeg(x) == CHOOSE r \in {<<a[1], -a[2], a[3]>> : a \in {x}} : TRUE

FMul(x, y) ==
    CHOOSE r \in {
        IF IsNaN(a) \/ IsNaN(b) THEN NaN
        ELSE IF IsInf(a) \/ IsInf(b)
             THEN (IF a[2] = 0 \/ b[2] = 0 THEN NaN ELSE Inf(Sgn(a[2]) * Sgn(b[2])))
        ELSE IF a[2] = 0 \/ b[2] = 0 THEN Zero
        ELSE LET g1 == GCD(Abs(a[2]), b[3])
                 g2 == GCD(Abs(b[2]), a[3])
             IN  Mk(a[1] + b[1], (a[2] \div g1) * (b[2] \div g2),
                                 (a[3] \div g2) * (b[3] \div g1)) :
        a \in {x}, b \in {y}} : TRUE

\* u^k as a fraction
RECURSIVE UPow(_)
UPow(k) == IF k = 0 THEN One ELSE FMul(UnitScale, UPow(k - 1))

\* x + y for finite x, y carrying the same power k of u
AddSame(k, x, y) ==
    LET g == GCD(x[3], y[3])
    IN  Mk(k, x[2] * (y[3] \div g) + y[2] * (x[3] \div g), (x[3] \div g) * y[3])

\* x + y for finite x, y with x[1] < y[1]: u^x[1] * (x + y * u^(y[1] - x[1]))
AddMixed(x, y) ==
    AddSame(x[1], x, FMul(<<0, y[2], y[3]>>, UPow(y[1] - x[1])))

FAdd(x, y) ==
    CHOOSE r \in {
        IF IsNaN(a) \/ IsNaN(b) THEN NaN
        ELSE IF IsInf(a) /\ IsInf(b) THEN (IF a[2] = b[2] THEN a ELSE NaN)
        ELSE IF IsInf(a) THEN a
        ELSE IF IsInf(b) THEN b
        ELSE IF a[2] = 0 THEN b
        ELSE IF b[2] = 0 THEN a
        ELSE IF a[1] = b[1] THEN AddSame(a[1], a, b)
        ELSE IF a[1] < b[1] THEN AddMixed(a, b)
        ELSE AddMixed(b, a) :
        a \in {x}, b \in {y}} : TRUE

FSub(x, y) == FAdd(x, FNeg(y))

\* numpy's true division: x / 0 is +-inf, 0 / 0 is nan (a RuntimeWarning, no error)
FDiv(x, y) ==
    CHOOSE r \in {
        IF IsNaN(a) \/ IsNaN(b) THEN NaN
        ELSE IF IsInf(b) THEN (IF IsInf(a) THEN NaN ELSE Zero)
        ELSE IF b[2] = 0 THEN (IF a[2] = 0 THEN NaN ELSE Inf(Sgn(a[2])))
        ELSE IF IsInf(a) THEN Inf(Sgn(a[2]) * Sgn(b[2]))
        ELSE IF a[2] = 0 THEN Zero
        ELSE LET g1 == GCD(Abs(a[2]), Abs(b[2]))
                 g2 == GCD(a[3], b[3])
             IN  Mk(a[1] - b[1],
                    (a[2] \div g1) * (b[3] \div g2) * Sgn(b[2]),
                    (a[3] \div g2) * (Abs(b[2]) \div g1)) :
        a \in {x}, b \in {y}} : TRUE

\* x < y for finite numbers carrying the same power of u
FLess(x, y) ==
    \E a \in {x}, b \in {y} : a[2] * b[3] < b[2] * a[3]

-----------------------------------------------------------------------------
(* Matrices: a matrix is a sequence of rows, a row a sequence of numbers *)

\* an array holds its elements computed: Row and Array compute every element
\* of a sequence and of a matrix once
Row(f) == SubSeq(f, 1, Len(f))

Array(M) == Row([i \in 1..Len(M) |-> Row(M[i])])

\* f[1] + ... + f[n]
RECURSIVE SumTo(_, _)
SumTo(f, n) == IF n = 0 THEN Zero ELSE FAdd(SumTo(f, n - 1), f[n])

\* np.matmul
MatMul(A, B) ==
    CHOOSE m \in {
        Array([i \in 1..Len(a) |->
                  [j \in 1..Len(b[1]) |->
                      SumTo([k \in 1..Len(b) |-> FMul(a[i][k], b[k][j])], Len(b))]]) :
        a \in {A}, b \in {B}} : TRUE

\* .T
Transpose(A) ==
    CHOOSE m \in {Array([j \in 1..Len(a[1]) |-> [i \in 1..Len(a) |-> a[i][j]]]) :
                  a \in {A}} : TRUE

\* np.eye(n)
Eye(n) == Array([i \in 1..n |-> [j \in 1..n |-> IF i = j THEN One ELSE Zero]])

\* np.array of integers
IntMatrix(A) == Array([i \in 1..Len(A) |-> [j \in 1..Len(A[1]) |-> Num(A[i][j])]])

\* np.shape of a matrix
Shape(A) == <<Len(A), Len(A[1])>>

\* the table of angles: index k < 4 is k * 90 degrees, 4 is atan(4 / 3)
CosOf(theta) ==
    CASE theta = 0 -> One
      [] theta = 1 -> Zero
      [] theta = 2 -> Num(-1)
      [] theta = 3 -> Zero
      [] theta = 4 -> Mk(0, 3, 5)

SinOf(theta) ==
    CASE theta = 0 -> Zero
      [] theta = 1 -> One
      [] theta = 2 -> Zero
      [] theta = 3 -> Num(-1)
      [] theta = 4 -> Mk(0, 4, 5)

Angles == 0..4

\* the angles the camera's heading and pitch are drawn from: 0, 90 degrees, atan(4 / 3)
CameraAngles == {0, 1, 4}

-----------------------------------------------------------------------------
(* matrix_utils2 (imported as mu) *)

\* the 3x3 block of the rotation by (c, s) = (cos, sin) about the unit axis k
RotationBlock(c, s, k) ==
    LET K == << <<Zero, FNeg(k[3]), k[2]>>,
                <<k[3], Zero, FNeg(k[1])>>,
                <<FNeg(k[2]), k[1], Zero>> >>
    IN  Array([i \in 1..3 |-> [j \in 1..3 |->
            FAdd(FAdd(IF i = j THEN c ELSE Zero,
                      FMul(FSub(One, c), FMul(k[i], k[j]))),
                 FMul(s, K[i][j]))]])

\* mu.xform_rotation_matrix: rotation by theta about the unit axis through origin
xform_rotation_matrix(origin, axis, theta) ==
    CHOOSE m \in {
        Array([i \in 1..4 |-> [j \in 1..4 |->
            IF i <= 3 /\ j <= 3 THEN R[i][j]
            ELSE IF i <= 3
                 THEN FSub(o[i], SumTo([n \in 1..3 |-> FMul(R[i][n], o[n])], 3))
            ELSE IF j = 4 THEN One ELSE Zero]]) :
        R \in {RotationBlock(CosOf(theta), SinOf(theta),
                             Row([i \in 1..3 |-> Num(axis[i])]))},
        o \in {Row([i \in 1..3 |-> Num(origin[i])])}} : TRUE

\* mu.xform_translation_matrix: the identity with the translation column set
xform_translation_matrix(v) ==
    Array([i \in 1..4 |-> [j \in 1..4 |->
        IF i = j THEN One
        ELSE IF j = 4 THEN Num(v[i])
        ELSE Zero]])

\* mu.matmul_xforms: the chain product xforms[1] . xforms[2] . ... in list order
RECURSIVE matmul_xforms(_)
matmul_xforms(xforms) ==
    IF Len(xforms) = 1 THEN xforms[1]
    ELSE MatMul(matmul_xforms(SubSeq(xforms, 1, Len(xforms) - 1)),
                xforms[Len(xforms)])

-----------------------------------------------------------------------------
(* Pincam: the matrix builders *)

world_to_camera_matrix ==
    IntMatrix(<< <<-1, 0, 0, 0>>,
                 << 0, 0, 1, 0>>,
                 << 0, 1, 0, 0>>,
                 << 0, 0, 0, 1>> >>)

camera_to_world_matrix == world_to_camera_matrix

extrinsic_matrix(h, p, c) ==
    LET origin == <<0, 0, 0>>
        cam_posn == [i \in 1..3 |-> -1 * c[i]]
        z_axis == <<0, 0, 1>>
        Rz == xform_rotation_matrix(origin, z_axis, h)
        x_axis == <<1, 0, 0>>
        Rx == xform_rotation_matrix(origin, x_axis, p)
        T == xform_translation_matrix(cam_posn)
    IN  matmul_xforms(<<Rz, Rx, T>>)

\* a faulty variant of FlenInRange: the range taken exclusive of its ends
FlenInRangeExclusive(flen) ==
    (flen < DEFAULT_MAX_FOCAL_LENGTH) /\ (flen > DEFAULT_MIN_FOCAL_LENGTH)

\* the condition of intrinsic_matrix's assert
FlenInRange(flen) ==
    (flen <= DEFAULT_MAX_FOCAL_LENGTH) /\ (flen >= DEFAULT_MIN_FOCAL_LENGTH)

\* Sx = (flen * sensor_world_width) * sensor_pixel_width = flen * u
intrinsic_matrix(flen, principle_point) ==
    IF ~FlenInRange(flen) THEN Raise(AssertionError)
    ELSE LET px == Num(principle_point[1])
             py == Num(principle_point[2])
             Sx == Mk(1, flen, 1)
             Sy == Sx
         IN  Return(<< <<Sx, Zero, px, Zero>>,
                       <<Zero, Sy, py, Zero>>,
                       <<Zero, Zero, One, Zero>> >>)

projection_matrix(flen, h, p, c) ==
    CHOOSE m \in {IF Raised(K) THEN K ELSE Return(MatMul(Value(K), Rtc)) :
                  Rtc \in {MatMul(world_to_camera_matrix, extrinsic_matrix(h, p, c))},
                  K \in {intrinsic_matrix(flen, <<0, 0>>)}} : TRUE

_invert_extrinsic_matrix_translation(Rt) ==
    CHOOSE m \in {Array([i \in 1..4 |-> [j \in 1..4 |->
                      IF i <= 3 /\ j = 4 THEN FNeg(a[i][4]) ELSE Eye(4)[i][j]]]) :
                  a \in {Rt}} : TRUE

_invert_extrinsic_matrix_rotation(Rt) ==
    CHOOSE m \in {Array([i \in 1..4 |-> [j \in 1..4 |->
                      IF i <= 3 /\ j <= 3 THEN a[j][i] ELSE Eye(4)[i][j]]]) :
                  a \in {Rt}} : TRUE

invert_extrinsic_matrix(Rt) ==
    CHOOSE m \in {matmul_xforms(<<_invert_extrinsic_matrix_translation(a),
                                  _invert_extrinsic_matrix_rotation(a)>>) :
                  a \in {Rt}} : TRUE

-----------------------------------------------------------------------------
(* The homogeneous coordinate converters *)

\* a faulty variant of p2e: the divisor taken from the last row, the homogeneous
\* coordinate e2p appended, instead of the third row
p2e_by_last_row(p) ==
    CHOOSE m \in {Row([j \in 1..Len(a[1]) |->
                      <<FDiv(a[1][j], a[Len(a)][j]), FDiv(a[2][j], a[Len(a)][j])>>]) :
                  a \in {p}} : TRUE

\* p2e: w = p[2, :], the third row; (p / w)[0:2, :].T
p2e(p) ==
    CHOOSE m \in {Row([j \in 1..Len(a[1]) |->
                      <<FDiv(a[1][j], a[3][j]), FDiv(a[2][j], a[3][j])>>]) :
                  a \in {p}} : TRUE

\* np.insert(e, 3, 1, 1): a column of ones put before column index 3 (0-based)
InsertOnes(e) ==
    CHOOSE m \in {Row([i \in 1..Len(a) |->
                      SubSeq(a[i], 1, 3) \o <<One>> \o SubSeq(a[i], 4, Len(a[i]))]) :
                  a \in {e}} : TRUE

\* e2p: np.insert(e, 3, 1, 1).T
e2p(e) == Transpose(InsertOnes(e))

\* a point matrix (n x 3) of integer points
PointMatrix(pts) ==
    Array([i \in 1..Len(pts) |-> [j \in 1..Len(pts[i]) |-> Num(pts[i][j])]])

-----------------------------------------------------------------------------
(* The projector *)

RECURSIVE Concat(_)
Concat(seqs) == IF Len(seqs) = 0 THEN <<>> ELSE Head(seqs) \o Concat(Tail(seqs))

\* np.cumsum
RECURSIVE CumSum(_)
CumSum(ns) ==
    IF Len(ns) = 0 THEN <<>>
    ELSE LET c == CumSum(SubSeq(ns, 1, Len(ns) - 1))
         IN  Append(c, (IF Len(c) = 0 THEN 0 ELSE c[Len(c)]) + ns[Len(ns)])

\* a faulty variant of stack: the boundaries set as if every geometry had as
\* many points as the first
stack_by_first(geometries) ==
    LET ptnums == [i \in 1..Len(geometries) |-> Len(geometries[1])]
        idx == CumSum(SubSeq(ptnums, 1, Len(ptnums) - 1))
    IN  <<Concat(geometries), idx>>

\* stack: the concatenated points and the end index of every geometry but the last
stack(geometries) ==
    LET ptnums == [i \in 1..Len(geometries) |-> Len(geometries[i])]
        idx == CumSum(SubSeq(ptnums, 1, Len(ptnums) - 1))
    IN  <<Concat(geometries), idx>>

\* np.split(arr, idx): the pieces arr[0:idx[0]], arr[idx[0]:idx[1]], ..., arr[idx[-1]:]
Split(arr, idx) ==
    Row([i \in 1..(Len(idx) + 1) |->
        SubSeq(arr, (IF i = 1 THEN 0 ELSE idx[i - 1]) + 1,
                    IF i = Len(idx) + 1 THEN Len(arr) ELSE idx[i])])

\* max of a non-empty list of finite numbers
RECURSIVE Max(_)
Max(xs) ==
    CHOOSE r \in {IF Len(a) = 1 THEN a[1]
                  ELSE CHOOSE q \in {IF FLess(a[1], m) THEN m ELSE a[1] :
                                     m \in {Max(Tail(a))}} : TRUE :
                  a \in {xs}} : TRUE

\* np.argsort(d): an index order that sorts d ascending.  numpy's default sort
\* (kind = 'quicksort') is not stable: the order it gives equal values is not
\* defined, so every sorting order is an outcome.
argsort(d) ==
    {a \in Permutations(1..Len(d)) :
        \A i \in 1..(Len(d) - 1) : ~FLess(d[a[i + 1]], d[a[i]])}

Reverse(xs) == Row([i \in 1..Len(xs) |-> xs[Len(xs) + 1 - i]])

\* a faulty variant of ordered_depths: the ascending order, [::-1] left out
ordered_depths_ascending(furthest_depths, asc) == asc

\* a faulty variant of ordered_depths: a stable descending sort, ties in batch order
ordered_depths_stable(furthest_depths, asc) ==
    CHOOSE o \in Permutations(1..Len(furthest_depths)) :
        \A i \in 1..(Len(furthest_depths) - 1) :
            \/ FLess(furthest_depths[o[i + 1]], furthest_depths[o[i]])
            \/ furthest_depths[o[i + 1]] = furthest_depths[o[i]] /\ o[i] < o[i + 1]

\* ordered_depths = np.argsort(furthest_depths)[::-1], asc being argsort's outcome
ordered_depths(furthest_depths, asc) == Reverse(asc)

\* project, up to the sort: the locals xptmtx, idx, furthest_depths, xgeometries
project_locals(P, geometries) ==
    CHOOSE l \in {
        [idx |-> st[2],
         xptmtx |-> x,
         furthest_depths |->
             Row([i \in 1..Len(geometries) |-> Max(Split(x[3], st[2])[i])]),
         xgeometries |-> Split(p2e(x), st[2])] :
        st \in {stack(geometries)},
        x \in {MatMul(P, e2p(PointMatrix(stack(geometries)[1])))}} : TRUE

\* project: every outcome of the call, one per outcome of argsort, each with
\* the locals that led to it.  np.array(np.split(...)) of polygons with
\* different numbers of points is an array of objects, indexed like any other.
project(P, cam_posn, geometries) ==
    UNION {
        {LET o == ordered_depths(l.furthest_depths, asc)
         IN  [value |-> Row([i \in 1..Len(geometries) |-> l.xgeometries[o[i]]]),
              furthest_depths |-> l.furthest_depths,
              argsort |-> asc,
              ordered_depths |-> o] :
         asc \in argsort(l.furthest_depths)} :
        l \in {project_locals(P, geometries)}}

\* project3d: perspective divide, the depth put back as third coordinate, then
\* the camera-to-world flip
project3d(P, surface) ==
    CHOOSE r \in {
        Array([n \in 1..Len(surface) |->
            LET row == <<FDiv(xs[1][n], xs[3][n]), FDiv(xs[2][n], xs[3][n]),
                         xs[3][n], One>>
            IN  [i \in 1..3 |->
                    SumTo([k \in 1..4 |->
                              FMul(camera_to_world_matrix[i][k], row[k])], 4)]]) :
        xs \in {MatMul(P, e2p(PointMatrix(surface)))}} : TRUE

-----------------------------------------------------------------------------
(* The depth orderer: bounding-box faces, view factors, project_by_z.       *)
(* A unit normal N / |N| has an irrational length, so a view factor         *)
(* -N[2] / |N| is held as the pair a = -N[2], r2 = N[1]^2 + N[3]^2: it is   *)
(* a / sqrt(a^2 + r2).  The sentinel 1.0 is a = 1, r2 = 0; nan is a = nan.  *)

MinOf(S) == CHOOSE x \in S : \A y \in S : x <= y

MaxOf(S) == CHOOSE x \in S : \A y \in S : x >= y

\* _bounding_box: the bottom and the top face of the box around the points
_bounding_box(geometries) ==
    LET minx == MinOf({geometries[i][1] : i \in 1..Len(geometries)})
        miny == MinOf({geometries[i][2] : i \in 1..Len(geometries)})
        minz == MinOf({geometries[i][3] : i \in 1..Len(geometries)})
        maxx == MaxOf({geometries[i][1] : i \in 1..Len(geometries)})
        maxy == MaxOf({geometries[i][2] : i \in 1..Len(geometries)})
        maxz == MaxOf({geometries[i][3] : i \in 1..Len(geometries)})
    IN  << << <<minx, maxy, minz>>, <<maxx, maxy, minz>>,
              <<maxx, miny, minz>>, <<minx, miny, minz>> >>,
           << <<minx, miny, maxz>>, <<maxx, miny, maxz>>,
              <<maxx, maxy, maxz>>, <<minx, maxy, maxz>> >> >>

VecSub(v, w) == Row([i \in 1..3 |-> FSub(v[i], w[i])])

\* np.cross
Cross(v, w) ==
    CHOOSE n \in {
        <<FSub(FMul(a[2], b[3]), FMul(a[3], b[2])),
          FSub(FMul(a[3], b[1]), FMul(a[1], b[3])),
          FSub(FMul(a[1], b[2]), FMul(a[2], b[1]))>> :
        a \in {v}, b \in {w}} : TRUE

\* np.abs(x) < 1e-10.  A number of the model that is not zero is u^k * n / d
\* with k >= 0, n # 0 and d < 2^31, so it is above 1e-10 in size: the test
\* holds for zero alone.  It fails for inf and for nan.
BelowTolerance(x) == \E a \in {x} : IsFinite(a) /\ a[2] = 0

\* _surface_normal: False when the components of the cross product sum to
\* (nearly) zero, else the unit normal, held by the cross product it is along
_surface_normal(surface) ==
    CHOOSE r \in {
        [isarray |-> ~BelowTolerance(FAdd(FAdd(normal[1], normal[2]), normal[3])),
         normal |-> normal] :
        normal \in {Cross(VecSub(surface[2], surface[1]),
                          VecSub(surface[3], surface[2]))}} : TRUE

\* view_factor: np.dot(-cam_point, N) with cam_point = (0, 1, 0), or 1.0.
\* A normal with an inf or nan component has a nan among N / |N|, and the dot
\* product, which multiplies every component, is nan.
view_factor(P, surface) ==
    CHOOSE f \in {
        IF ~N.isarray THEN [a |-> One, r2 |-> Zero]
        ELSE IF \E i \in 1..3 : ~IsFinite(N.normal[i]) THEN [a |-> NaN, r2 |-> NaN]
        ELSE [a |-> FNeg(N.normal[2]),
              r2 |-> FAdd(FMul(N.normal[1], N.normal[1]),
                          FMul(N.normal[3], N.normal[3]))] :
        N \in {_surface_normal(project3d(P, surface))}} : TRUE

\* factor > 0.0
Positive(f) == \E x \in {f} : IsFinite(x.a) /\ x.a[2] > 0

\* f > g for two view factors.  Of two of the same sign the one with the
\* larger a^2 / r2 is the further from 0.
Greater(f, g) ==
    \E x \in {f}, y \in {g} :
        /\ IsFinite(x.a) /\ IsFinite(y.a)
        /\ IF Sgn(x.a[2]) # Sgn(y.a[2]) THEN Sgn(x.a[2]) > Sgn(y.a[2])
           ELSE IF x.a[2] = 0 THEN FALSE
           ELSE \E q \in {FDiv(x.a, y.a)} :
                   IF x.a[2] > 0
                   THEN FLess(x.r2, FMul(FMul(q, q), y.r2))
                   ELSE FLess(FMul(FMul(q, q), y.r2), x.r2)

\* _view_bounding_extents: which of the bottom and top face of the bounding
\* box the camera sees, and their view factors
_view_bounding_extents(P, cam_posn, geometries) ==
    CHOOSE v \in UNION {
        {[view_bot |-> Positive(fb), view_top |-> Positive(ft),
          view_bot_factor |-> fb, view_top_factor |-> ft] :
         fb \in {view_factor(P, Reverse(srfs[1]))},
         ft \in {view_factor(P, Reverse(srfs[2]))}} :
        srfs \in {_bounding_box(Concat(geometries))}} : TRUE

\* np.mean(g[:, 2])
MeanZ(g) ==
    LET RECURSIVE Sum(_)
        Sum(n) == IF n = 0 THEN 0 ELSE Sum(n - 1) + g[n][3]
    IN  Mk(0, Sum(Len(g)), Len(g))

\* the numbers of a set in ascending order
RECURSIVE Ascending(_)
Ascending(S) ==
    IF S = {} THEN <<>>
    ELSE LET m == CHOOSE x \in S : \A y \in S : ~FLess(y, x)
         IN  <<m>> \o Ascending(S \ {m})

\* mu.groupby on the key mean z: the geometries of equal key (within 1e-10,
\* which for these keys is equality) form a group, members in batch order,
\* groups by ascending key
groupby(geometries, zlst) ==
    LET keys == Ascending({zlst[i] : i \in 1..Len(zlst)})
    IN  Row([k \in 1..Len(keys) |->
                SelectSeq(geometries, LAMBDA g : MeanZ(g) = keys[k])])

\* _helper_project: the groups projected one after the other, each by project;
\* every outcome
RECURSIVE _helper_project(_, _, _)
_helper_project(P, cam_posn, _grouped_by_z) ==
    IF Len(_grouped_by_z) = 0 THEN {<<>>}
    ELSE {pgeoms.value \o rest :
             pgeoms \in project(P, cam_posn, Head(_grouped_by_z)),
             rest \in _helper_project(P, cam_posn, Tail(_grouped_by_z))}

\* the three buckets of the both-visible branch: t, b, c as the loop fills them
buckets(P, cam_posn, grouped_by_z) ==
    CHOOSE r \in {
        LET Where(test(_)) ==
                LET RECURSIVE Pick(_)
                    Pick(n) ==
                        IF n = 0 THEN <<>>
                        ELSE IF test(views[n]) THEN Append(Pick(n - 1), grouped_by_z[n])
                        ELSE Pick(n - 1)
                IN  Pick(Len(grouped_by_z))
        IN  [c |-> Where(LAMBDA v : v.view_top /\ v.view_bot),
             t |-> Where(LAMBDA v : ~(v.view_top /\ v.view_bot) /\ v.view_top),
             b |-> Where(LAMBDA v : ~(v.view_top /\ v.view_bot) /\ ~v.view_top)] :
        views \in {Row([i \in 1..Len(grouped_by_z) |->
                           _view_bounding_extents(P, cam_posn, grouped_by_z[i])])}} : TRUE

\* a faulty variant of bucket_order: the both-visible bucket put first
bucket_order_c_first(t, b, c, top_first) ==
    IF top_first THEN c \o t \o b ELSE c \o b \o t

\* the buckets joined: b is b[::-1] already
bucket_order(t, b, c, top_first) ==
    IF top_first THEN t \o b \o c ELSE b \o t \o c

NothingInViewMessage == "Nothing in view. Check if camera is too close too object."

\* project_by_z up to the final call of _helper_project: the locals, the order
\* of the groups handed to it, and what is printed
project_by_z_locals(P, cam_posn, geometries) ==
    CHOOSE l \in UNION {{
        LET both == view_data.view_bot /\ view_data.view_top
            b == Reverse(bk.b)
        IN  [grouped_by_z |-> grouped,
             view_data |-> view_data,
             t |-> IF both THEN bk.t ELSE <<>>,
             b |-> IF both THEN b ELSE <<>>,
             c |-> IF both THEN bk.c ELSE <<>>,
             order |->
                 IF both
                 THEN bucket_order(bk.t, b, bk.c,
                                   Greater(view_data.view_top_factor,
                                           view_data.view_bot_factor))
                 ELSE IF view_data.view_bot THEN grouped
                 ELSE IF view_data.view_top THEN Reverse(grouped)
                 ELSE grouped,
             printed |->
                 IF ~view_data.view_bot /\ ~view_data.view_top
                 THEN <<NothingInViewMessage>> ELSE <<>>] :
        bk \in {buckets(P, cam_posn, grouped)},
        view_data \in {_view_bounding_extents(P, cam_posn, geometries)}} :
        grouped \in {groupby(geometries, Row([i \in 1..Len(geometries) |->
                                                 MeanZ(geometries[i])]))}} : TRUE

-----------------------------------------------------------------------------
(* Pincam: the camera object and its derived properties *)

\* the fields of self, as the properties read them
Self == [cam_point |-> cam_point, focal_length |-> focal_length,
         heading |-> heading, pitch |-> pitch, _P |-> _P]

\* a faulty variant of Pincam_P: the projection matrix cached in self._P on first access
Pincam_P_cached(self) ==
    LET m == IF self._P = None
             THEN projection_matrix(self.focal_length, self.heading,
                                    self.pitch, self.cam_point)
             ELSE Return(self._P)
    IN  [value |-> m, _P |-> IF Raised(m) THEN self._P ELSE Value(m)]

\* the property P: the value it returns and the field _P it leaves behind
Pincam_P(self) ==
    [value |-> projection_matrix(self.focal_length, self.heading,
                                 self.pitch, self.cam_point),
     _P |-> self._P]

\* the property Rt
Pincam_Rt(self) == extrinsic_matrix(self.heading, self.pitch, self.cam_point)

\* the values the model draws camera parameters from
CamPoints ==
    {<<0, 0, 0>>, <<1, 0, 0>>, <<0, -1, 0>>, <<0, 0, 2>>, <<1, 2, 3>>, <<-2, 1, -1>>}

CameraFocalLengths == {10, 18, 70, 100}

FocalLengths == {10, 17, 18, 44, 70, 71, 100}

PrinciplePoints == {<<0, 0>>}

\* __init__: the parameters are stored unchecked, _P is None.  The camera is
\* built at the origin with heading = pitch = atan(4 / 3); every other
\* position and angle is reached by assignment.
CameraInit ==
    /\ cam_point = <<0, 0, 0>>
    /\ focal_length \in CameraFocalLengths
    /\ heading = 4
    /\ pitch = 4
    /\ _P = None

\* nothing has been called yet; input is what the first call will be given
IdleWith(input) ==
    /\ op = "__init__"
    /\ arg = input
    /\ ret = Return(None)
    /\ aux = None
    /\ stdout = <<>>

Idle == IdleWith(None)

InitCamera == CameraInit /\ Idle

SetCamPoint(c) ==
    /\ cam_point' = c
    /\ op' = "set_cam_point"
    /\ arg' = None /\ ret' = Return(None) /\ aux' = None
    /\ UNCHANGED <<focal_length, heading, pitch, _P, stdout>>

SetFocalLength(f) ==
    /\ focal_length' = f
    /\ op' = "set_focal_length"
    /\ arg' = None /\ ret' = Return(None) /\ aux' = None
    /\ UNCHANGED <<cam_point, heading, pitch, _P, stdout>>

SetHeading(h) ==
    /\ heading' = h
    /\ op' = "set_heading"
    /\ arg' = None /\ ret' = Return(None) /\ aux' = None
    /\ UNCHANGED <<cam_point, focal_length, pitch, _P, stdout>>

SetPitch(p) ==
    /\ pitch' = p
    /\ op' = "set_pitch"
    /\ arg' = None /\ ret' = Return(None) /\ aux' = None
    /\ UNCHANGED <<cam_point, focal_length, heading, stdout, _P>>

\* an access to self.P
GetP ==
    /\ op' = "P"
    /\ \E r \in {Pincam_P(Self)} : ret' = r.value /\ _P' = r._P
    /\ arg' = None /\ aux' = None
    /\ UNCHANGED <<cam_point, focal_length, heading, pitch, stdout>>

\* an access to self.Rt
GetRt ==
    /\ op' = "Rt"
    /\ ret' = Return(Pincam_Rt(Self))
    /\ arg' = None /\ aux' = None
    /\ UNCHANGED <<camera, stdout>>

\* a call of the static Pincam.intrinsic_matrix
CallIntrinsicMatrix(flen, pp) ==
    /\ op' = "intrinsic_matrix"
    /\ arg' = <<flen, pp>>
    /\ ret' = intrinsic_matrix(flen, pp)
    /\ aux' = None
    /\ UNCHANGED <<camera, stdout>>

\* iRt = self.invert_extrinsic_matrix(self.Rt), as view_frustum_geometry calls it
CallInvertExtrinsic ==
    /\ op' = "invert_extrinsic_matrix"
    /\ \E m \in {Pincam_Rt(Self)} :
          arg' = m /\ ret' = Return(invert_extrinsic_matrix(m))
    /\ aux' = None
    /\ UNCHANGED <<camera, stdout>>

NextCamera ==
    \/ \E c \in CamPoints : SetCamPoint(c)
    \/ \E f \in CameraFocalLengths : SetFocalLength(f)
    \/ \E h \in CameraAngles : SetHeading(h)
    \/ \E p \in CameraAngles : SetPitch(p)
    \/ GetP
    \/ GetRt
    \/ \E f \in FocalLengths, pp \in PrinciplePoints : CallIntrinsicMatrix(f, pp)
    \/ CallInvertExtrinsic

SpecCamera == InitCamera /\ [][NextCamera]_vars

-----------------------------------------------------------------------------
(* The converters on their own: p2e(e2p(X)) *)

\* the points the round trip is tried on: integer coordinates 0 .. MaxDepth
RoundTripPoints == [1..3 -> 0..MaxDepth]

RoundTripInputs == {<<a>> : a \in RoundTripPoints}
                   \cup {<<a, b>> : a \in RoundTripPoints, b \in RoundTripPoints}

\* the point set X is drawn at the start; the call is applied to it once
InitConv ==
    /\ CameraInit
    /\ focal_length = 18
    /\ \E X \in RoundTripInputs : IdleWith(X)

\* p2e(e2p(X)); aux keeps the projective form e2p(X)
CallRoundTrip ==
    /\ op = "__init__"
    /\ op' = "p2e(e2p(X))"
    /\ \E h \in {e2p(PointMatrix(arg))} :
          aux' = h /\ ret' = Return(p2e(h))
    /\ UNCHANGED <<camera, arg, stdout>>

NextConv == CallRoundTrip

SpecConv == InitConv /\ [][NextConv]_vars

-----------------------------------------------------------------------------
(* The projector driven by a camera: Pincam.project(self.P, self.cam_point,  *)
(* ptmtx) as to_gpd_geometry calls it, Pincam.project3d(self.P, pts) as      *)
(* view_frustum_geometry2 calls it                                           *)

\* a triangle at world depth y
Tri(y) == << <<0, y, 0>>, <<1, y, 0>>, <<0, y, 1>> >>

\* a quadrilateral reaching from world depth y - 1 to y
Quad(y) == << <<0, y - 1, 0>>, <<1, y - 1, 0>>, <<1, y, 1>>, <<0, y, 1>> >>

\* triangles at every depth, and a quadrilateral as deep as the deepest
Polygons == {Tri(y) : y \in 0..MaxDepth} \cup {Quad(MaxDepth)}

RECURSIVE SeqsUpTo(_, _)
SeqsUpTo(S, n) ==
    IF n = 0 THEN {<<>>}
    ELSE LET shorter == SeqsUpTo(S, n - 1)
         IN  shorter \cup {Append(q, x) : q \in {t \in shorter : Len(t) = n - 1}, x \in S}

\* the batches: 1 to MaxPolys different polygons, in any order
Batches ==
    {b \in SeqsUpTo(Polygons, MaxPolys) :
        Len(b) > 0 /\ \A i, j \in 1..Len(b) : b[i] = b[j] => i = j}

\* the camera looks along +y (heading = pitch = 0) from in front of the
\* geometry (y = -1) or from inside it (y = 1)
InitProject ==
    /\ cam_point \in {<<0, -1, 0>>, <<0, 1, 0>>}
    /\ focal_length \in {18, 100}
    /\ heading = 0
    /\ pitch = 0
    /\ _P = None
    /\ \E geometries \in Batches : IdleWith(geometries)

\* Pincam.project(self.P, self.cam_point, ptmtx); aux keeps the call's locals
CallProject ==
    /\ op = "__init__"
    /\ op' = "project"
    /\ \E Pm \in {Pincam_P(Self).value} :
          IF Raised(Pm)
          THEN ret' = Pm /\ aux' = None
          ELSE \E r \in project(Value(Pm), cam_point, arg) :
                  /\ ret' = Return(r.value)
                  /\ aux' = [furthest_depths |-> r.furthest_depths,
                             argsort |-> r.argsort,
                             ordered_depths |-> r.ordered_depths]
    /\ UNCHANGED <<camera, arg, stdout>>

\* [Pincam.project3d(self.P, pts) for pts in ptmtx]
CallProject3d ==
    /\ op = "__init__"
    /\ op' = "project3d"
    /\ \E Pm \in {Pincam_P(Self).value} :
          ret' = IF Raised(Pm) THEN Pm
                 ELSE Return(Row([i \in 1..Len(arg) |-> project3d(Value(Pm), arg[i])]))
    /\ aux' = None
    /\ UNCHANGED <<camera, arg, stdout>>

NextProject ==
    \/ CallProject
    \/ CallProject3d

SpecProject == InitProject /\ [][NextProject]_vars

-----------------------------------------------------------------------------
(* project_by_z on horizontal slabs, the stacked stories it is meant for *)

\* a horizontal unit slab at height z
Slab(z) == << <<0, 0, z>>, <<1, 0, z>>, <<1, 1, z>>, <<0, 1, z>> >>

\* a wall from height z - 1 to z + 1: its mean height is z
Wall(z) == << <<0, 0, z - 1>>, <<1, 0, z - 1>>, <<1, 0, z + 1>>, <<0, 0, z + 1>> >>

Stories == {Slab(z) : z \in 0..MaxZ} \cup {Wall(1)}

\* the batches: 1 to MaxPolys different stories, listed from the lowest up or
\* from the highest down
StoryBatches ==
    {b \in SeqsUpTo(Stories, MaxPolys) :
        /\ Len(b) > 0
        /\ \A i, j \in 1..Len(b) : b[i] = b[j] => i = j
        /\ \/ \A i \in 1..(Len(b) - 1) : ~FLess(MeanZ(b[i + 1]), MeanZ(b[i]))
           \/ \A i \in 1..(Len(b) - 1) : ~FLess(MeanZ(b[i]), MeanZ(b[i + 1]))}

\* the camera looks along +y at the stack from height 1 or 2, or stands in
\* the plane y = 0 of the stack's near edge
InitByZ ==
    /\ cam_point \in {<<0, -2, 1>>, <<0, -2, 2>>, <<0, 0, 1>>}
    /\ focal_length = 18
    /\ heading = 0
    /\ pitch = 0
    /\ _P = None
    /\ \E geometries \in StoryBatches : IdleWith(geometries)

\* self.project_by_z(geometries); aux keeps the call's locals
CallProjectByZ ==
    /\ op = "__init__"
    /\ op' = "project_by_z"
    /\ \E Pm \in {Pincam_P(Self).value} :
          IF Raised(Pm)
          THEN ret' = Pm /\ aux' = None /\ stdout' = stdout
          ELSE \E l \in {project_by_z_locals(Value(Pm), cam_point, arg)} :
                  /\ \E proj_geoms \in _helper_project(Value(Pm), cam_point, l.order) :
                        ret' = Return(proj_geoms)
                  /\ aux' = l
                  /\ stdout' = stdout \o l.printed
    /\ UNCHANGED <<camera, arg>>

NextByZ == CallProjectByZ

SpecByZ == InitByZ /\ [][NextByZ]_vars

-----------------------------------------------------------------------------
(* project and project_by_z on the same batches: polygons of three and four  *)
(* points at several depths, and stacked stories                             *)

InitGeometry == InitProject \/ InitByZ

NextGeometry ==
    \/ CallProject
    \/ CallProjectByZ

SpecGeometry == InitGeometry /\ [][NextGeometry]_vars

-----------------------------------------------------------------------------
(* Pincam.view_factor(self.P, surface) called on a triangle *)

\* the corners the triangles are drawn from
Corners == {<<x, y, z>> : x \in 0..1, y \in 0..1, z \in 0..MaxDepth}

Surfaces == {<<p, q, r>> : p \in Corners, q \in Corners, r \in Corners}

\* the camera looks along +y from in front of the corners, or stands in their
\* near plane y = 0
InitView ==
    /\ cam_point \in {<<0, -2, 1>>, <<0, 0, 1>>}
    /\ focal_length = 18
    /\ heading = 0
    /\ pitch = 0
    /\ _P = None
    /\ \E surface \in Surfaces : IdleWith(surface)

\* Pincam.view_factor(self.P, surface); aux keeps N as _surface_normal gave it
CallViewFactor ==
    /\ op = "__init__"
    /\ op' = "view_factor"
    /\ \E Pm \in {Pincam_P(Self).value} :
          IF Raised(Pm)
          THEN ret' = Pm /\ aux' = None
          ELSE /\ ret' = Return(view_factor(Value(Pm), arg))
               /\ aux' = _surface_normal(project3d(Value(Pm), arg))
    /\ UNCHANGED <<camera, arg, stdout>>

NextView == CallViewFactor

SpecView == InitView /\ [][NextView]_vars

-----------------------------------------------------------------------------
(* Claims about the camera and the matrix builders, under SpecCamera *)

ReturnsMatrix(r, rows, cols) == ~Raised(r) /\ Shape(Value(r)) = <<rows, cols>>

\* C3: intrinsic_matrix raises for every focal length outside [18, 70] and
\* returns a 3x4 matrix for every focal length inside, 18 and 70 included;
\* a camera with a focal length outside the range exists, each access to its P
\* raises, and its Rt is still a 4x4 matrix.
C3_FocalLengthRange ==
    /\ op = "intrinsic_matrix" =>
          IF arg[1] < 18 \/ arg[1] > 70
          THEN ret = Raise(AssertionError)
          ELSE ReturnsMatrix(ret, 3, 4)
    /\ op = "P" =>
          IF focal_length < 18 \/ focal_length > 70
          THEN ret = Raise(AssertionError)
          ELSE ReturnsMatrix(ret, 3, 4)
    /\ op = "Rt" => ReturnsMatrix(ret, 4, 4)

\* C3 witness: the camera holds a focal length outside the range and the access
\* to P has raised
C3_Witness ==
    op = "P" /\ focal_length = 100 /\ ret = Raise(AssertionError)

\* C5: the matrix invert_extrinsic_matrix returns for the camera's Rt, composed
\* with Rt (in either order), is the identity transform.
C5_InverseComposesToIdentity ==
    op = "invert_extrinsic_matrix" =>
        \/ MatMul(Value(ret), arg) = Eye(4)
        \/ MatMul(arg, Value(ret)) = Eye(4)

\* C7: every access to P or Rt returns the matrix of the parameters the camera
\* holds at that access, and the access changes no parameter (nor _P).
C7_DerivedRecomputedOnAccess ==
    [][ /\ op' = "P" =>
              /\ ret' = projection_matrix(focal_length, heading, pitch, cam_point)
              /\ camera' = camera
        /\ op' = "Rt" =>
              /\ ret' = Return(extrinsic_matrix(heading, pitch, cam_point))
              /\ camera' = camera ]_vars

\* C7 witness: P read after the position, the heading, the pitch and the focal
\* length have all been reassigned
C7_Witness ==
    /\ op = "P"
    /\ cam_point = <<1, 2, 3>> /\ heading = 1 /\ pitch = 0 /\ focal_length = 70
    /\ ReturnsMatrix(ret, 3, 4)
    /\ ret # projection_matrix(18, 4, 4, <<0, 0, 0>>)

-----------------------------------------------------------------------------
(* Claims about the converters, under SpecConv *)

-----------------------------------------------------------------------------
(* Claims about the projector, under SpecProject *)

\* the projection matrix of the camera (defined when the focal length is valid)
CameraP == Value(projection_matrix(focal_length, heading, pitch, cam_point))

\* the depth row of a polygon's projection, and the largest value in it
DepthsOf(poly) == MatMul(CameraP, e2p(PointMatrix(poly)))[3]

MaxDepthOf(poly) == Max(DepthsOf(poly))

\* a polygon's own perspective divide
PerspectiveOf(poly) == p2e(MatMul(CameraP, e2p(PointMatrix(poly))))

\* the place of input polygon i in an index order
PlaceIn(order, i) == CHOOSE k \in 1..Len(order) : order[k] = i

Projected == op = "project" /\ ~Raised(ret)

\* C1: project returns the polygons farthest first: the output is the input
\* reordered, each polygon perspective-divided, and of two adjacent output
\* polygons the earlier one's maximum depth is >= the later one's.
C1_FarthestFirst ==
    Projected =>
        LET out == Value(ret)
            o == aux.ordered_depths
        IN  /\ Len(out) = Len(arg)
            /\ o \in Permutations(1..Len(arg))
            /\ \A i \in 1..Len(arg) : out[i] = PerspectiveOf(arg[o[i]])
            /\ \A i \in 1..(Len(arg) - 1) :
                  ~FLess(MaxDepthOf(arg[o[i]]), MaxDepthOf(arg[o[i + 1]]))

\* C1 witness: three polygons of three different depths, given neither farthest
\* first nor nearest first, come out reordered
C1_Witness ==
    /\ Projected
    /\ Len(arg) = 3
    /\ aux.ordered_depths = <<2, 3, 1>>
    /\ FLess(MaxDepthOf(arg[1]), MaxDepthOf(arg[3]))
    /\ FLess(MaxDepthOf(arg[3]), MaxDepthOf(arg[2]))

\* C2 as claimed: polygons of equal maximum depth keep their batch order.
C2_TiesKeepBatchOrder ==
    Projected =>
        \A i, j \in 1..Len(arg) :
            (i < j /\ MaxDepthOf(arg[i]) = MaxDepthOf(arg[j])) =>
                PlaceIn(aux.ordered_depths, i) < PlaceIn(aux.ordered_depths, j)

\* C2 as amended: the output order is argsort's ascending order reversed, so two
\* polygons of equal maximum depth come out in the reverse of the order argsort
\* listed them; argsort's default sort leaves that order open, and whenever it
\* lists them in batch order they come out in reverse batch order.
C2_TiesReverseArgsort ==
    Projected =>
        /\ aux.argsort \in Permutations(1..Len(arg))
        /\ \A i, j \in 1..Len(arg) :
              (i < j /\ MaxDepthOf(arg[i]) = MaxDepthOf(arg[j])) =>
                  (PlaceIn(aux.argsort, i) < PlaceIn(aux.argsort, j)
                      <=> PlaceIn(aux.ordered_depths, j) < PlaceIn(aux.ordered_depths, i))

\* C2 witness: two different polygons of equal maximum depth, listed by argsort
\* in batch order, come out in reverse batch order
C2_Witness ==
    /\ Projected
    /\ Len(arg) = 2
    /\ arg[1] # arg[2]
    /\ MaxDepthOf(arg[1]) = MaxDepthOf(arg[2])
    /\ aux.argsort = <<1, 2>>
    /\ Value(ret) = <<PerspectiveOf(arg[2]), PerspectiveOf(arg[1])>>

AllFinite(polys) ==
    \A i \in 1..Len(polys) : \A n \in 1..Len(polys[i]) :
        \A k \in 1..Len(polys[i][n]) : IsFinite(polys[i][n][k])

\* C4: when a point of the input projects to depth w = 0, project and project3d
\* surface a DegenerateProjection condition instead of returning infinite or
\* undefined coordinates.
C4_ZeroDepthGuarded ==
    ( /\ op \in {"project", "project3d"}
      /\ FlenInRange(focal_length)
      /\ \E i \in 1..Len(arg) : \E n \in 1..Len(arg[i]) : DepthsOf(arg[i])[n] = Zero )
    => (ret = Raise("DegenerateProjection") \/ (~Raised(ret) /\ AllFinite(Value(ret))))

-----------------------------------------------------------------------------
(* Claims about project_by_z, under SpecByZ *)

ByZReturned == op = "project_by_z" /\ ~Raised(ret)

\* the bounding-box test run on one group alone
OwnView(group) == _view_bounding_extents(CameraP, cam_point, group)

\* C8: when neither the bottom nor the top face of the input's bounding box is
\* visible, project_by_z hands the caller a NothingInView result, one the
\* caller can tell from an ordered projection.
C8_NothingInViewSurfaced ==
    (ByZReturned /\ ~aux.view_data.view_bot /\ ~aux.view_data.view_top) =>
        ret[1] = "NothingInView"

\* the number of polygons in the groups before group k
RECURSIVE PolygonsBefore(_, _)
PolygonsBefore(groups, k) ==
    IF k = 1 THEN 0 ELSE PolygonsBefore(groups, k - 1) + Len(groups[k - 1])

\* the buckets a group can belong to by its own visibility
BucketOf(view) ==
    IF view.view_top /\ view.view_bot THEN "c"
    ELSE IF view.view_top THEN "t"
    ELSE IF view.view_bot THEN "b"
    ELSE "none"

\* C9: the groups are emitted in bucket order when both faces of the whole
\* input are visible (the bucket of the face with the larger view factor, then
\* the other face's bucket, the both-visible bucket last), in grouping order
\* when only the bottom face is visible, and in the reverse of the grouping
\* order when only the top face is visible.
C9_BucketOrder ==
    ByZReturned =>
        \E G \in {aux.grouped_by_z}, E \in {aux.order}, out \in {Value(ret)},
           v \in {_view_bounding_extents(CameraP, cam_point, arg)} :
            /\ aux.view_data = v
            /\ Len(E) = Len(G)
            /\ {E[k] : k \in 1..Len(E)} = {G[k] : k \in 1..Len(G)}
            /\ Len(out) = Len(arg)
            /\ \A k \in 1..Len(E) : \A m \in 1..Len(E[k]) :
                  out[PolygonsBefore(E, k) + m]
                      \in {PerspectiveOf(E[k][n]) : n \in 1..Len(E[k])}
            /\ (v.view_bot /\ v.view_top) =>
                  \E rank \in {[t |-> IF Greater(v.view_top_factor, v.view_bot_factor)
                                      THEN 1 ELSE 2,
                                b |-> IF Greater(v.view_top_factor, v.view_bot_factor)
                                      THEN 2 ELSE 1,
                                c |-> 3]} :
                  \E bucket \in {Row([k \in 1..Len(E) |-> BucketOf(OwnView(E[k]))])} :
                      \A i, j \in 1..Len(E) :
                          (i < j /\ bucket[i] # "none" /\ bucket[j] # "none") =>
                              rank[bucket[i]] <= rank[bucket[j]]
            /\ (v.view_bot /\ ~v.view_top) => E = G
            /\ (~v.view_bot /\ v.view_top) => E = Reverse(G)

\* C9 witness: both faces visible, the top more so, and a group in each
\* bucket: the groups come out top bucket, bottom bucket, both-visible bucket,
\* which is not their grouping order
C9_Witness ==
    /\ ByZReturned
    /\ aux.view_data.view_bot /\ aux.view_data.view_top
    /\ Greater(aux.view_data.view_top_factor, aux.view_data.view_bot_factor)
    /\ Len(aux.t) = 1 /\ Len(aux.b) = 1 /\ Len(aux.c) = 1
    /\ aux.order = aux.t \o aux.b \o aux.c
    /\ aux.order # aux.grouped_by_z

\* C10: in the both-visible branch a group is in the bottom bucket only if its
\* own bottom face alone is visible, in the top bucket only if its own top face
\* alone is visible, in the both-visible bucket only if both are: no group with
\* neither face visible is in a bucket.
C10_BucketsByOwnVisibility ==
    (ByZReturned /\ aux.view_data.view_bot /\ aux.view_data.view_top) =>
        /\ \A k \in 1..Len(aux.b) : BucketOf(OwnView(aux.b[k])) = "b"
        /\ \A k \in 1..Len(aux.t) : BucketOf(OwnView(aux.t[k])) = "t"
        /\ \A k \in 1..Len(aux.c) : BucketOf(OwnView(aux.c[k])) = "c"

-----------------------------------------------------------------------------
(* Claims about view_factor, under SpecView *)

\* the cross product of the two edge vectors of the first three projected points
ProjectedCross(surface) ==
    \* computed from the projection, not read from the call's locals
    CHOOSE n \in {Cross(VecSub(x[2], x[1]), VecSub(x[3], x[2])) :
                  x \in {project3d(CameraP, surface)}} : TRUE

\* the magnitude of a vector is below 1e-10: of the model's numbers only the
\* zero vector is that short
ShortVector(n) == \A i \in 1..3 : IsFinite(n[i]) /\ n[i][2] = 0

Sentinel == [a |-> One, r2 |-> Zero]

\* C11: view_factor returns the sentinel 1.0 exactly for the faces whose
\* projected cross product has magnitude below 1e-10; for every other face it
\* returns the dot product of (0, -1, 0) with the unit normal, -N[2] / |N|.
C11_SentinelIffDegenerate ==
    (op = "view_factor" /\ ~Raised(ret)) =>
        \E n \in {ProjectedCross(arg)} :
            IF ShortVector(n) THEN Value(ret) = Sentinel
            ELSE IF \E i \in 1..3 : ~IsFinite(n[i]) THEN IsNaN(Value(ret).a)
            ELSE /\ Value(ret).a = FNeg(n[2])
                 /\ Value(ret).r2 = FAdd(FMul(n[1], n[1]), FMul(n[3], n[3]))

-----------------------------------------------------------------------------
(* Claims about the grouping of the projected points, under SpecGeometry *)

\* one polygon projected point by point, each point on its own
PointwiseOf(Pm, poly) ==
    Row([n \in 1..Len(poly) |->
            p2e(MatMul(Pm, e2p(PointMatrix(<<poly[n]>>))))[1]])

\* out is the batch's polygons in some order, each with its own points
\* projected, as many and in the same order as it had
Regrouped(out, geometries) ==
    /\ Len(out) = Len(geometries)
    /\ \E pw \in UNION {{Row([i \in 1..Len(geometries) |->
                                    PointwiseOf(Pm, geometries[i])])} :
                          Pm \in {CameraP}} :
          \E o \in Permutations(1..Len(geometries)) :
              \A i \in 1..Len(geometries) :
                  /\ Len(out[i]) = Len(geometries[o[i]])
                  /\ out[i] = pw[o[i]]

\* C12: project returns a permutation of the input polygons, each output
\* polygon with the same number of points in the same point order as the
\* input polygon it came from; project_by_z returns exactly one projected
\* polygon per input polygon whichever of the bounding box's faces are visible.
C12_GeometryPreserved ==
    (Projected \/ ByZReturned) => Regrouped(Value(ret), arg)

\* C12 witness: a batch of a triangle, a quadrilateral and a triangle comes
\* out of project in another order, the quadrilateral no longer in the middle
C12_Witness ==
    /\ Projected
    /\ Len(arg) = 3
    /\ Len(arg[1]) = 3 /\ Len(arg[2]) = 4 /\ Len(arg[3]) = 3
    /\ Len(Value(ret)[2]) = 3
    /\ aux.ordered_depths # <<1, 2, 3>>
    /\ C12_GeometryPreserved

\* project_by_z has returned in each of the four visibility cases
ByZBoth == ByZReturned /\ aux.view_data.view_bot /\ aux.view_data.view_top /\ Len(arg) > 1
ByZBottomOnly == ByZReturned /\ aux.view_data.view_bot /\ ~aux.view_data.view_top /\ Len(arg) > 1
ByZTopOnly == ByZReturned /\ ~aux.view_data.view_bot /\ aux.view_data.view_top /\ Len(arg) > 1
ByZNeither == ByZReturned /\ ~aux.view_data.view_bot /\ ~aux.view_data.view_top /\ Len(arg) > 1

=============================================================================
